---- MODULE Spec2Model ----
(***************************************************************************)
(* A model of the AWS-DevOps-Agent MCP server: the three tools of          *)
(* server.py (plan_deployment, apply_deployment, destroy_resources) and    *)
(* the generation and audit operations of DecisionEngine.                  *)
(*                                                                         *)
(* Text is a sequence of characters, one string each.  Everything outside  *)
(* the process (git, the LLM backend, hadolint, trivy, cfn-lint, docker,   *)
(* AWS) is the environment: each call to it either raises or returns a     *)
(* value drawn from a small set.                                           *)
(*                                                                         *)
(* Spec is the server: tool calls, one at a time.  AuditSpec is one call   *)
(* of audit_dockerfile or audit_sam_template, which no tool of server.py   *)
(* makes.                                                                  *)
(***************************************************************************)
EXTENDS Integers, Sequences, FiniteSets, TLC

\* ------------------------------------------------------------------ bounds

\* Longest list of findings a validator tool reports in one run.
MaxFindings == 2

\* Longest backend text that is normalized, in pieces (a character or a
\* whole language tag).
MaxPieces == 7

\* Largest attempt argument generate_dockerfile is called with.
MaxAttempt == 2

\* ------------------------------------------------------------- constants

\* config.py: Settings.MAX_RETRIES
MAX_RETRIES == 3

None == "None"

\* ------------------------------------------------------------------ text

Whitespace == {" ", "\n", "\t"}

\* s[i..] starts with pat
MatchAt(s, pat, i) ==
    /\ i + Len(pat) - 1 <= Len(s)
    /\ \A k \in 1..Len(pat) : s[i + k - 1] = pat[k]

\* pat in s  (Python: substring test on str)
Contains(s, pat) == \E i \in 1..(Len(s) + 1) : MatchAt(s, pat, i)

RECURSIVE RemoveFrom(_, _, _)
RemoveFrom(s, pat, i) ==
    IF i > Len(s) THEN <<>>
    ELSE IF MatchAt(s, pat, i) THEN RemoveFrom(s, pat, i + Len(pat))
    ELSE <<s[i]>> \o RemoveFrom(s, pat, i + 1)

\* s.replace(pat, ""): left to right, non-overlapping occurrences
Remove(s, pat) == RemoveFrom(s, pat, 1)

RECURSIVE LStrip(_)
LStrip(s) == IF s # <<>> /\ Head(s) \in Whitespace THEN LStrip(Tail(s)) ELSE s

RECURSIVE RStrip(_)
RStrip(s) ==
    IF s # <<>> /\ s[Len(s)] \in Whitespace
    THEN RStrip(SubSeq(s, 1, Len(s) - 1)) ELSE s

\* s.strip()
Strip(s) == RStrip(LStrip(s))

\* The backquote character (the lexer admits none inside a string literal).
BQ == "bq"

Fence == <<BQ, BQ, BQ>>
DockerfileFence == Fence \o <<"d", "o", "c", "k", "e", "r", "f", "i", "l", "e">>
Sentinel == <<"P", "A", "S", "S">>

YamlFence == Fence \o <<"y", "a", "m", "l">>

\* A slip: the text is stripped before the fences are taken out.
NormalizeStripFirst(text) == Remove(Remove(Strip(text), DockerfileFence), Fence)

\* response.text.replace(DockerfileFence, "").replace(Fence, "").strip()
NormalizeDockerfile(text) == Strip(Remove(Remove(text, DockerfileFence), Fence))

\* response.text.replace(YamlFence, "").replace(Fence, "").strip()
NormalizeSam(text) == Strip(Remove(Remove(text, YamlFence), Fence))

\* ------------------------------------------------------- validator output

SeqsUpTo(S, n) == UNION {[1..k -> S] : k \in 0..n}

\* What a tool wrote to stdout: nothing, text that is not JSON, or a JSON
\* value.  A JSON value is an array (arr), an object (obj) or a number (num).
\* NotRun stands where the tool has not been run.
NotRun == [kind |-> "not run"]
StdoutEmpty == [kind |-> "empty"]
StdoutText == [kind |-> "text"]
StdoutJson(j) == [kind |-> "json", val |-> j]
JArr(a) == [t |-> "arr", a |-> a]
JObj(o) == [t |-> "obj", o |-> o]
JNum == [t |-> "num"]
EmptyObj == [k \in {} |-> 0]

\* hadolint --format json: an array of {level, code, message, line}
HadolintItems ==
    { [level |-> "error", code |-> "DL3006", message |-> "tag", line |-> 1],
      [level |-> "warning", code |-> "DL3008", message |-> "pin", line |-> 2],
      [level |-> "info", code |-> "DL3059", message |-> "run", line |-> 3],
      [code |-> "DL3006", message |-> "tag", line |-> 1] }

HadolintOutputs ==
    {StdoutEmpty, StdoutText, StdoutJson(JNum), StdoutJson(JObj(EmptyObj)),
     StdoutJson(JObj([error |-> "usage"]))}
    \cup {StdoutJson(JArr(a)) : a \in SeqsUpTo(HadolintItems, MaxFindings)}

\* trivy config --format json: {Results: [{Misconfigurations: [{ID, Description}]}]}
TrivyMisconfs ==
    { [ID |-> "DS002", Description |-> "root"],
      [ID |-> "DS026", Description |-> "healthcheck"],
      [ID |-> "DS002"] }

TrivyResults ==
    {[Target |-> "f"]}
    \cup {[Target |-> "f", Misconfigurations |-> m] :
            m \in SeqsUpTo(TrivyMisconfs, MaxFindings)}

TrivyOutputs ==
    {StdoutEmpty, StdoutText, StdoutJson(JNum), StdoutJson(JArr(<<>>)),
     StdoutJson(JObj([SchemaVersion |-> 2]))}
    \cup {StdoutJson(JObj([SchemaVersion |-> 2, Results |-> r])) :
            r \in SeqsUpTo(TrivyResults, 2)}

\* cfn-lint --format json: an array of {Level, Message, Location: {Start: {LineNumber}}}
CfnLintItems ==
    { [Level |-> "Error", Message |-> "E3001",
       Location |-> [Start |-> [LineNumber |-> 4]]],
      [Level |-> "Warning", Message |-> "W2001",
       Location |-> [Start |-> [LineNumber |-> 7]]],
      [Level |-> "Error", Message |-> "E0000"] }

CfnLintOutputs ==
    {StdoutEmpty, StdoutText, StdoutJson(JNum), StdoutJson(JObj(EmptyObj)),
     StdoutJson(JObj([error |-> "usage"]))}
    \cup {StdoutJson(JArr(a)) : a \in SeqsUpTo(CfnLintItems, MaxFindings)}

\* Texts the backend may answer the audit prompt with.
SemanticAnswers ==
    { <<"P", "A", "S", "S">>,
      <<" ", "P", "A", "S", "S", "\n">>,
      <<"P", "A", "S", "S", ".">>,
      <<"n", "o", " ", "C", "O", "P", "Y">>,
      <<"n", "o", "t", " ", "P", "A", "S", "S">>,
      <<"p", "a", "s", "s">>,
      <<>> }

\* --------------------------------------------------------------- parsing
\* A parse ends with the exception it raised ("none": it returned) and the
\* violations appended up to that point.

Parsed(exc, v) == [exc |-> exc, v |-> v]

HadolintViolation(err) ==
    <<"[Hadolint] ", err.code, ": ", err.message, " (Line ", err.line, ")">>

RECURSIVE HadolintLoop(_, _, _)
HadolintLoop(errors, i, acc) ==
    IF i > Len(errors) THEN Parsed("none", acc)
    ELSE LET err == errors[i] IN
         IF "level" \notin DOMAIN err THEN Parsed("KeyError", acc)
         ELSE IF err.level \in {"error", "warning"}
              THEN IF {"code", "message", "line"} \subseteq DOMAIN err
                   THEN HadolintLoop(errors, i + 1, Append(acc, HadolintViolation(err)))
                   ELSE Parsed("KeyError", acc)
              ELSE HadolintLoop(errors, i + 1, acc)

\* Iterating a JSON value that is no array: an object yields its keys, and
\* subscripting a key (a str) with 'level' is a TypeError; a number is not
\* iterable.
IterateNonArray(j) ==
    IF j.t = "obj" /\ DOMAIN j.o = {} THEN Parsed("none", <<>>)
    ELSE Parsed("TypeError", <<>>)

HadolintParse(stdout) ==
    IF stdout.kind = "empty" THEN Parsed("none", <<>>)
    ELSE IF stdout.kind = "text" THEN Parsed("JSONDecodeError", <<>>)
    ELSE IF stdout.val.t = "arr" THEN HadolintLoop(stdout.val.a, 1, <<>>)
    ELSE IterateNonArray(stdout.val)

TrivyViolation(label, misconf) ==
    <<label, misconf.ID, ": ", misconf.Description>>

RECURSIVE MisconfLoop(_, _, _, _)
MisconfLoop(label, ms, i, acc) ==
    IF i > Len(ms) THEN Parsed("none", acc)
    ELSE IF {"ID", "Description"} \subseteq DOMAIN ms[i]
         THEN MisconfLoop(label, ms, i + 1, Append(acc, TrivyViolation(label, ms[i])))
         ELSE Parsed("KeyError", acc)

RECURSIVE ResultsLoop(_, _, _, _)
ResultsLoop(label, rs, i, acc) ==
    IF i > Len(rs) THEN Parsed("none", acc)
    ELSE IF "Misconfigurations" \in DOMAIN rs[i]
         THEN LET inner == MisconfLoop(label, rs[i].Misconfigurations, 1, acc) IN
              IF inner.exc = "none" THEN ResultsLoop(label, rs, i + 1, inner.v)
              ELSE inner
         ELSE ResultsLoop(label, rs, i + 1, acc)

TrivyParse(label, stdout) ==
    IF stdout.kind = "empty" THEN Parsed("none", <<>>)
    ELSE IF stdout.kind = "text" THEN Parsed("JSONDecodeError", <<>>)
    ELSE LET scan_result == stdout.val IN
         IF scan_result.t = "num" THEN Parsed("TypeError", <<>>)
         ELSE IF scan_result.t = "arr" THEN Parsed("none", <<>>)
         ELSE IF "Results" \in DOMAIN scan_result.o
              THEN ResultsLoop(label, scan_result.o.Results, 1, <<>>)
              ELSE Parsed("none", <<>>)

CfnLintViolation(err) ==
    <<"[cfn-lint] ", err.Level, ": ", err.Message, " (Line ",
      err.Location.Start.LineNumber, ")">>

RECURSIVE CfnLintLoop(_, _, _)
CfnLintLoop(errors, i, acc) ==
    IF i > Len(errors) THEN Parsed("none", acc)
    ELSE IF {"Level", "Message", "Location"} \subseteq DOMAIN errors[i]
         THEN CfnLintLoop(errors, i + 1, Append(acc, CfnLintViolation(errors[i])))
         ELSE Parsed("KeyError", acc)

CfnLintParse(stdout) ==
    IF stdout.kind = "empty" THEN Parsed("none", <<>>)
    ELSE IF stdout.kind = "text" THEN Parsed("JSONDecodeError", <<>>)
    ELSE IF stdout.val.t = "arr" THEN CfnLintLoop(stdout.val.a, 1, <<>>)
    ELSE IterateNonArray(stdout.val)

\* if "PASS" not in res: violations.append(f"[AI Logic Check] {res}")
SemanticPasses(res) == Contains(res, Sentinel)

SemanticViolation(res) == <<"[AI Logic Check] ", res>>

\* ----------------------------------------------------------------- state

VARIABLES
    \* --- server.py and the files under settings.WORK_DIR
    pc,             \* where the running tool call stands ("idle": none runs)
    target,         \* the target argument of the running plan_deployment
    workDir,        \* WORK_DIR exists
    dockerfile,     \* WORK_DIR/Dockerfile: NoFile, or its text and who wrote it
    context,        \* the dict analyze_context returned
    artifact,       \* the text generate_dockerfile returned
    hostReport,     \* what audit_dockerfile reports for artifact on this host
    genCalls,       \* generate_dockerfile calls of the running plan_deployment
    planAudits,     \* audit reports plan_deployment obtained for its artifact
    outcome,        \* how the last tool call ended
    lastPlan,       \* how the last plan_deployment ended ("none": none was made)
    execOps,        \* ExecutionEngine methods the last tool call invoked
    hasAwsCreds,    \* settings.HAS_AWS_CREDS
    \* --- one call of DecisionEngine.audit_dockerfile / audit_sam_template
    op,             \* which of the two
    apc,            \* lint, scan, semantic, returned, raised
    lintInstalled,  \* hadolint (audit_dockerfile) or cfn-lint (audit_sam_template)
    trivyInstalled,
    lintOut,        \* stdout of the linter, NotRun until it ran
    trivyRc,        \* returncode of trivy
    trivyOut,       \* stdout of trivy, NotRun until it ran
    llmAnswer,      \* text the backend answered the audit prompt with
    llmCalls,       \* LlamaSettings.llm.complete calls made by the audit
    violations,     \* the local list
    exc,            \* the exception that left the audit ("none": none did)
    \* --- the normalization of one backend text, applied once and again
    nKind,          \* generate_dockerfile or generate_sam_template
    nStage,         \* raw, once, twice
    nRaw,           \* response.text
    nOnce,          \* nRaw normalized
    nTwice,         \* nOnce normalized
    \* --- one call of DecisionEngine.generate_dockerfile
    gpc,            \* called, returned, raised
    gArgs,          \* context, attempt, error_msg, target_service
    gPrompt,        \* the prompt handed to LlamaSettings.llm.complete
    gResult         \* the text returned

serverVars ==
    <<pc, target, workDir, dockerfile, context, artifact, hostReport, genCalls,
      planAudits, outcome, lastPlan, execOps, hasAwsCreds>>

auditVars ==
    <<op, apc, lintInstalled, trivyInstalled, lintOut, trivyRc, trivyOut,
      llmAnswer, llmCalls, violations, exc>>

normVars == <<nKind, nStage, nRaw, nOnce, nTwice>>

promptVars == <<gpc, gArgs, gPrompt, gResult>>

engineVars == <<normVars, promptVars>>

vars == <<serverVars, auditVars, engineVars>>

\* ------------------------------------------------- DecisionEngine: audits

\* A slip: new findings go in front of the list.
ExtendInFront(list, found) == found \o list

\* violations.append(...) in a validator's loop: found is what the loop appended
Extend(list, found) == list \o found

\* A slip: the backend is asked whatever the tools found.
SemanticGateOpen(list) == TRUE

\* if not violations:
SemanticGate(list) == list = <<>>

\* except FileNotFoundError / except json.JSONDecodeError around each validator
\* of audit_dockerfile
DockerfileCaught == {"FileNotFoundError", "JSONDecodeError"}

\* audit_sam_template: only json.loads is guarded
SamCaught == {"JSONDecodeError"}

\* The validator ended with exception e and appended found; next is where the
\* audit goes on when e is "none" or caught.
ValidatorDone(caught, e, found, next) ==
    /\ violations' = Extend(violations, found)
    /\ IF e = "none" \/ e \in caught
       THEN apc' = next /\ exc' = exc
       ELSE apc' = "raised" /\ exc' = e

AuditIdle ==
    /\ op = None /\ apc = "idle" /\ lintInstalled = FALSE /\ trivyInstalled = FALSE
    /\ lintOut = NotRun /\ trivyRc = 0 /\ trivyOut = NotRun /\ llmAnswer = <<>>
    /\ llmCalls = 0 /\ violations = <<>> /\ exc = "none"

\* --- 1. Hadolint
RunHadolint ==
    /\ op = "audit_dockerfile" /\ apc = "lint"
    /\ IF ~lintInstalled
       THEN /\ ValidatorDone(DockerfileCaught, "FileNotFoundError", <<>>, "scan")
            /\ lintOut' = lintOut
       ELSE \E out \in HadolintOutputs :
               /\ lintOut' = out
               /\ ValidatorDone(DockerfileCaught, HadolintParse(out).exc,
                                HadolintParse(out).v, "scan")
    /\ UNCHANGED <<op, lintInstalled, trivyInstalled, trivyRc, trivyOut,
                   llmAnswer, llmCalls>>
    /\ UNCHANGED <<serverVars, engineVars>>

\* if result.returncode == 0 and result.stdout:
TrivyConfigAudit(rc, out) ==
    IF rc = 0 THEN TrivyParse("[Trivy] ", out) ELSE Parsed("none", <<>>)

\* --- 2. Trivy (Config Audit)
RunTrivy ==
    /\ op = "audit_dockerfile" /\ apc = "scan"
    /\ IF ~trivyInstalled
       THEN /\ ValidatorDone(DockerfileCaught, "FileNotFoundError", <<>>, "semantic")
            /\ UNCHANGED <<trivyRc, trivyOut>>
       ELSE \E rc \in {0, 1}, out \in TrivyOutputs :
               /\ trivyRc' = rc
               /\ trivyOut' = out
               /\ ValidatorDone(DockerfileCaught, TrivyConfigAudit(rc, out).exc,
                                TrivyConfigAudit(rc, out).v, "semantic")
    /\ UNCHANGED <<op, lintInstalled, trivyInstalled, lintOut, llmAnswer, llmCalls>>
    /\ UNCHANGED <<serverVars, engineVars>>

\* --- 3. the backend's logic check, then return violations
SemanticCheck ==
    /\ op = "audit_dockerfile" /\ apc = "semantic"
    /\ IF SemanticGate(violations)
       THEN /\ llmCalls' = llmCalls + 1
            /\ \/ /\ llmAnswer' = llmAnswer
                  /\ ValidatorDone({}, "BackendError", <<>>, "returned")
               \/ \E answer \in SemanticAnswers :
                     LET res == Strip(answer) IN
                     /\ llmAnswer' = answer
                     /\ ValidatorDone({}, "none",
                            IF SemanticPasses(res) THEN <<>>
                            ELSE <<SemanticViolation(res)>>, "returned")
       ELSE /\ apc' = "returned"
            /\ UNCHANGED <<llmAnswer, llmCalls, violations, exc>>
    /\ UNCHANGED <<op, lintInstalled, trivyInstalled, lintOut, trivyRc, trivyOut>>
    /\ UNCHANGED <<serverVars, engineVars>>

\* --- 1. cfn-lint: subprocess.run stands outside the inner try
RunCfnLint ==
    /\ op = "audit_sam_template" /\ apc = "lint"
    /\ IF ~lintInstalled
       THEN /\ ValidatorDone(SamCaught, "FileNotFoundError", <<>>, "scan")
            /\ lintOut' = lintOut
       ELSE \E out \in CfnLintOutputs :
               /\ lintOut' = out
               /\ ValidatorDone(SamCaught, CfnLintParse(out).exc,
                                CfnLintParse(out).v, "scan")
    /\ UNCHANGED <<op, lintInstalled, trivyInstalled, trivyRc, trivyOut,
                   llmAnswer, llmCalls>>
    /\ UNCHANGED <<serverVars, engineVars>>

\* --- 2. Trivy IaC, then return violations (res.returncode is not read)
RunTrivyIaC ==
    /\ op = "audit_sam_template" /\ apc = "scan"
    /\ IF ~trivyInstalled
       THEN /\ ValidatorDone(SamCaught, "FileNotFoundError", <<>>, "returned")
            /\ trivyOut' = trivyOut
       ELSE \E out \in TrivyOutputs :
               /\ trivyOut' = out
               /\ ValidatorDone(SamCaught, TrivyParse("[Trivy IaC] ", out).exc,
                                TrivyParse("[Trivy IaC] ", out).v, "returned")
    /\ UNCHANGED <<op, lintInstalled, trivyInstalled, lintOut, trivyRc,
                   llmAnswer, llmCalls>>
    /\ UNCHANGED <<serverVars, engineVars>>

\* ------------------------------------------- DecisionEngine: generation

Targets == {"local", "lambda", "ecs"}

\* str(index.as_query_engine().query(...)) of analyze_context
StackSummaries == {<<"p", "y">>, <<"j", "s">>}

\* security_context: the default, or the text of the retrieved rule nodes
SecurityContexts == {<<"s", "t", "d">>, <<"n", "o", " ", "r", "o", "o", "t">>}

\* Texts the backend may answer the generation prompt with.
BackendDockerfiles ==
    { <<"F", "R", "O", "M", " ", "a">>,
      DockerfileFence \o <<"\n", "F", "R", "O", "M", " ", "a", "\n">> \o Fence,
      Fence \o <<"\n", "F", "R", "O", "M", " ", "b", "\n">> \o Fence \o <<"\n">>,
      <<" ", "F", "R", "O", "M", " ", "b", " ">> }

\* {error_msg if error_msg else "None (First attempt)"}
FeedbackSection(error_msg) ==
    IF error_msg # <<>> THEN error_msg ELSE <<"N", "o", "n", "e">>

\* The instruction for AWS Lambda, line by line.
ShimInstruction ==
    <<"[IMPORTANT: AWS Lambda Deployment]",
      "COPY --from=public.ecr.aws/awsguru/aws-lambda-adapter:0.8.4 /lambda-adapter /opt/extensions/lambda-adapter",
      "Ensure the ENTRYPOINT or CMD starts the web server on port 8080 (default).">>

\* if target_service == "lambda": prompt += the Lambda Web Adapter section
LambdaSection(target_service) ==
    IF target_service = "lambda" THEN ShimInstruction ELSE <<>>

\* context.get(key, default)
Get(ctx, key, default) == IF key \in DOMAIN ctx THEN ctx[key] ELSE default

UnknownStack == <<"U", "n", "k">>
StandardRules == <<"S", "t", "d">>

\* A slip: the instruction is added on the first attempt only.
DockerfilePromptShimOnce(ctx, attempt, error_msg, target_service) ==
    <<"[Tech Stack]", Get(ctx, "stack_summary", UnknownStack),
      "[Security Rules]", Get(ctx, "security_context", StandardRules),
      "[Feedback from previous attempt]", FeedbackSection(error_msg)>>
    \o (IF attempt = 0 THEN LambdaSection(target_service) ELSE <<>>)
    \o <<"Output ONLY the Dockerfile content.">>

\* The prompt of generate_dockerfile, section by section.
DockerfilePrompt(ctx, attempt, error_msg, target_service) ==
    <<"[Tech Stack]", Get(ctx, "stack_summary", UnknownStack),
      "[Security Rules]", Get(ctx, "security_context", StandardRules),
      "[Feedback from previous attempt]", FeedbackSection(error_msg)>>
    \o LambdaSection(target_service)
    \o <<"Output ONLY the Dockerfile content.">>

\* ------------------------------------------------------------ server.py

\* A slip: the attempt argument starts at the budget.
FirstAttemptAtBudget == MAX_RETRIES

\* decider.generate_dockerfile(context, 0, "", target): the attempt argument
FirstAttempt == 0

\* A slip: the first call is handed a leftover message.
FirstFeedbackLeftover == <<"o", "l", "d">>

\* ... and the error_msg argument
FirstFeedback == <<>>

\* Reports audit_dockerfile can give for a generated Dockerfile on the host.
HostReports ==
    { <<>>,
      <<HadolintViolation([level |-> "error", code |-> "DL3006",
                           message |-> "tag", line |-> 1])>>,
      <<TrivyViolation("[Trivy] ", [ID |-> "DS002", Description |-> "root"])>> }

File(text, by) == [text |-> text, by |-> by]
NoFile == File(<<>>, "absent")
NoContext == [stack_summary |-> <<>>, security_context |-> <<>>]

\* A tool call ended: nothing runs until the next one.
Ended(how) == pc' = "idle" /\ outcome' = how

\* A Dockerfile that the cloned repository carries at its root.
RepoDockerfile == File(<<"F", "R", "O", "M", " ", "r">>, "repository")

\* plan_deployment, up to analyzer.clone_repository: rmtree and mkdir of
\* WORK_DIR, then Repo.clone_from, which may raise
PlanClone ==
    /\ pc = "idle"
    /\ \E t \in Targets : target' = t
    /\ workDir' = TRUE
    /\ context' = NoContext /\ artifact' = <<>> /\ hostReport' = <<>>
    /\ genCalls' = <<>> /\ planAudits' = <<>> /\ execOps' = <<>>
    /\ \/ /\ pc' = "analyze" /\ outcome' = "running"
          /\ dockerfile' \in {NoFile, RepoDockerfile}
       \/ /\ Ended("raised: clone")
          /\ dockerfile' = NoFile
    /\ lastPlan' = outcome'
    /\ UNCHANGED hasAwsCreds
    /\ UNCHANGED <<auditVars, engineVars>>

\* analyzer.analyze_context(work_dir)
PlanAnalyze ==
    /\ pc = "analyze"
    /\ \/ /\ \E s \in StackSummaries, r \in SecurityContexts :
               context' = [stack_summary |-> s, security_context |-> r]
          /\ pc' = "generate" /\ outcome' = outcome
       \/ Ended("raised: analyze") /\ context' = context
    /\ lastPlan' = outcome'
    /\ UNCHANGED <<target, workDir, dockerfile, artifact, hostReport, genCalls,
                   planAudits, execOps, hasAwsCreds>>
    /\ UNCHANGED <<auditVars, engineVars>>

\* One call of generate_dockerfile: its arguments, the prompt it sent, and
\* whether the backend call raised.
GenCall(attempt, error_msg, raised) ==
    [attempt |-> attempt, feedback |-> error_msg,
     prompt |-> DockerfilePrompt(context, attempt, error_msg, target),
     raised |-> raised]

\* A slip: generate_dockerfile swallows the backend's exception and returns
\* an empty text, which plan_deployment goes on to write.
GenerationSwallowed ==
    /\ pc' = "write" /\ outcome' = outcome
    /\ artifact' = <<>> /\ hostReport' = <<>>
    /\ dockerfile' = dockerfile

\* LlamaSettings.llm.complete(prompt) raised inside generate_dockerfile:
\* nothing catches it, plan_deployment ends with the exception
GenerationRaised ==
    /\ Ended("raised: generate")
    /\ UNCHANGED <<artifact, hostReport, dockerfile>>

\* decider.generate_dockerfile(context, 0, "", target)
PlanGenerate ==
    /\ pc = "generate"
    /\ \/ /\ genCalls' = Append(genCalls, GenCall(FirstAttempt, FirstFeedback, FALSE))
          /\ \E text \in BackendDockerfiles : artifact' = NormalizeDockerfile(text)
          /\ \E report \in HostReports : hostReport' = report
          /\ pc' = "write" /\ outcome' = outcome
          /\ dockerfile' = dockerfile
       \/ /\ genCalls' = Append(genCalls, GenCall(FirstAttempt, FirstFeedback, TRUE))
          /\ GenerationRaised
    /\ lastPlan' = outcome'
    /\ UNCHANGED <<target, workDir, context, planAudits, execOps, hasAwsCreds>>
    /\ UNCHANGED <<auditVars, engineVars>>

\* (work_dir / "Dockerfile").write_text(dockerfile)
PlanWrite ==
    /\ pc = "write"
    /\ dockerfile' = File(artifact, "plan_deployment")
    /\ pc' = "diagram"
    /\ UNCHANGED <<target, workDir, context, artifact, hostReport, genCalls,
                   planAudits, outcome, lastPlan, execOps, hasAwsCreds>>
    /\ UNCHANGED <<auditVars, engineVars>>

\* the Mermaid diagram call, then return the plan text
PlanDiagram ==
    /\ pc = "diagram"
    /\ \/ Ended("plan")
       \/ Ended("raised: diagram")
    /\ lastPlan' = outcome'
    /\ UNCHANGED <<target, workDir, dockerfile, context, artifact, hostReport,
                   genCalls, planAudits, execOps, hasAwsCreds>>
    /\ UNCHANGED <<auditVars, engineVars>>

\* apply_deployment(project_name, target)
ApplyDeployment ==
    /\ pc = "idle"
    /\ \E t \in Targets :
          IF dockerfile = NoFile
          THEN Ended("error: no plan") /\ execOps' = <<>>
          ELSE IF t = "local"
          THEN /\ execOps' = <<"deploy_to_local">>
               /\ (Ended("deployed") \/ Ended("raised: deploy"))
          ELSE IF t = "lambda"
          THEN IF ~hasAwsCreds
               THEN Ended("error: no credentials") /\ execOps' = <<>>
               ELSE \/ /\ execOps' = <<"build_and_push_lambda">>
                       /\ Ended("raised: deploy")
                    \/ /\ execOps' = <<"build_and_push_lambda", "deploy_to_lambda">>
                       /\ (Ended("deployed") \/ Ended("raised: deploy"))
          ELSE Ended("deployed") /\ execOps' = <<>>
    /\ UNCHANGED <<target, workDir, dockerfile, context, artifact, hostReport,
                   genCalls, planAudits, lastPlan, hasAwsCreds>>
    /\ UNCHANGED <<auditVars, engineVars>>

\* destroy_resources(project_name, target)
DestroyResources ==
    /\ pc = "idle"
    /\ \E t \in Targets :
          IF t = "local"
          THEN /\ execOps' = <<"cleanup_local">>
               /\ (Ended("destroyed") \/ Ended("raised: destroy"))
          ELSE IF t = "lambda"
          THEN IF ~hasAwsCreds
               THEN Ended("error: no credentials to destroy") /\ execOps' = <<>>
               ELSE /\ execOps' = <<"cleanup_lambda">>
                    /\ (Ended("destroyed") \/ Ended("raised: destroy"))
          ELSE Ended("destroyed") /\ execOps' = <<>>
    /\ UNCHANGED <<target, workDir, dockerfile, context, artifact, hostReport,
                   genCalls, planAudits, lastPlan, hasAwsCreds>>
    /\ UNCHANGED <<auditVars, engineVars>>

\* ------------------------------------------------------- specifications

\* A Dockerfile an earlier run of the server left under WORK_DIR.
EarlierDockerfile == File(<<"F", "R", "O", "M", " ", "o">>, "earlier run")

NormIdle ==
    /\ nKind = None /\ nStage = "idle"
    /\ nRaw = <<>> /\ nOnce = <<>> /\ nTwice = <<>>

NoArgs ==
    [context |-> NoContext, attempt |-> 0, error_msg |-> <<>>,
     target_service |-> None]

PromptIdle ==
    /\ gpc = "idle" /\ gArgs = NoArgs /\ gPrompt = <<>> /\ gResult = <<>>

\* The server after import: no tool call yet.
Init ==
    /\ pc = "idle" /\ target = None
    /\ \/ dockerfile = NoFile /\ workDir \in BOOLEAN
       \/ dockerfile = EarlierDockerfile /\ workDir = TRUE
    /\ context = NoContext /\ artifact = <<>> /\ hostReport = <<>>
    /\ genCalls = <<>> /\ planAudits = <<>>
    /\ outcome = "none" /\ lastPlan = "none" /\ execOps = <<>>
    /\ hasAwsCreds \in BOOLEAN
    /\ AuditIdle /\ NormIdle /\ PromptIdle

Next ==
    \/ PlanClone
    \/ PlanAnalyze
    \/ PlanGenerate
    \/ PlanWrite
    \/ PlanDiagram
    \/ ApplyDeployment
    \/ DestroyResources

Spec == Init /\ [][Next]_vars

ServerIdle ==
    /\ pc = "idle" /\ target = None /\ workDir = FALSE /\ dockerfile = NoFile
    /\ context = NoContext /\ artifact = <<>> /\ hostReport = <<>>
    /\ genCalls = <<>> /\ planAudits = <<>> /\ outcome = "none"
    /\ lastPlan = "none" /\ execOps = <<>> /\ hasAwsCreds = FALSE

\* One audit of a generated text: the operation and the tools the host has.
AuditInit ==
    /\ ServerIdle /\ NormIdle /\ PromptIdle
    /\ op \in {"audit_dockerfile", "audit_sam_template"}
    /\ apc = "lint"
    /\ lintInstalled \in BOOLEAN /\ trivyInstalled \in BOOLEAN
    /\ lintOut = NotRun /\ trivyRc = 0 /\ trivyOut = NotRun /\ llmAnswer = <<>>
    /\ llmCalls = 0 /\ violations = <<>> /\ exc = "none"

AuditNext ==
    \/ RunHadolint
    \/ RunTrivy
    \/ SemanticCheck
    \/ RunCfnLint
    \/ RunTrivyIaC

AuditSpec == AuditInit /\ [][AuditNext]_vars

\* ---------------------------------------------------------------- claims

\* C1: a Dockerfile written by plan_deployment is the artifact of an audit
\* that plan_deployment ran and that reported zero violations.
C1_PersistedOnlyAfterPassedAudit ==
    dockerfile.by = "plan_deployment" =>
        \E i \in 1..Len(planAudits) :
            /\ planAudits[i].artifact = dockerfile.text
            /\ planAudits[i].violations = <<>>

\* C2: every generator call of a plan_deployment carries an attempt index
\* below MAX_RETRIES, and a plan_deployment makes at most MAX_RETRIES of them.
C2_AttemptsWithinBudget ==
    /\ Len(genCalls) <= MAX_RETRIES
    /\ \A i \in 1..Len(genCalls) : genCalls[i].attempt < MAX_RETRIES

C2_Witness == pc = "write" /\ Len(genCalls) = 1 /\ genCalls[1].attempt = 0

C4_AllFailedEndsExhausted ==
    (/\ pc = "idle" /\ outcome \in {"plan", "Passed", "Exhausted"}
     /\ hostReport # <<>>)
    => /\ outcome = "Exhausted"
       /\ Len(genCalls) = MAX_RETRIES
       /\ Len(planAudits) = MAX_RETRIES
       /\ planAudits[MAX_RETRIES].violations = hostReport

\* C5: once the backend call of a generation has raised, the plan_deployment
\* is over with its exception: no further generator call, no artifact, no
\* audit, no plan text, and no Dockerfile under WORK_DIR.
C5_GenerationFailureIsFatal ==
    (genCalls # <<>> /\ genCalls[Len(genCalls)].raised)
    => /\ pc = "idle"
       /\ outcome \notin {"running", "plan"}
       /\ Len(genCalls) = 1
       /\ artifact = <<>> /\ planAudits = <<>>
       /\ dockerfile.by # "plan_deployment"

C5_Witness ==
    /\ outcome = "raised: generate"
    /\ genCalls # <<>> /\ genCalls[Len(genCalls)].raised

\* The output a validator is expected to print: nothing, or JSON of the
\* documented shape with every field of every finding.
WellFormedArray(out, fields) ==
    \/ out.kind = "empty"
    \/ /\ out.kind = "json" /\ out.val.t = "arr"
       /\ \A i \in 1..Len(out.val.a) : fields \subseteq DOMAIN out.val.a[i]

WellFormedLint(out) ==
    IF op = "audit_dockerfile"
    THEN WellFormedArray(out, {"level", "code", "message", "line"})
    ELSE WellFormedArray(out, {"Level", "Message", "Location"})

WellFormedTrivy(out) ==
    \/ out.kind = "empty"
    \/ /\ out.kind = "json" /\ out.val.t = "obj"
       /\ "Results" \in DOMAIN out.val.o =>
            \A i \in 1..Len(out.val.o.Results) :
                LET r == out.val.o.Results[i] IN
                "Misconfigurations" \in DOMAIN r =>
                    \A k \in 1..Len(r.Misconfigurations) :
                        {"ID", "Description"} \subseteq DOMAIN r.Misconfigurations[k]

\* trivy's stdout is read: always by audit_sam_template, on returncode 0 by
\* audit_dockerfile
TrivyRead == trivyOut # NotRun /\ (op = "audit_dockerfile" => trivyRc = 0)

\* C6: a validator whose tool is missing is skipped: the audit does not end
\* with the tool's FileNotFoundError, and an audit that returned has run
\* every tool the host has.
C6_MissingToolIsSkipped ==
    /\ exc # "FileNotFoundError"
    /\ apc = "returned" =>
         /\ lintInstalled => lintOut # NotRun
         /\ trivyInstalled => trivyOut # NotRun

\* C7: malformed output of a validator (not JSON, or JSON without the
\* expected top-level shape or fields) raises nothing, and the audit goes on
\* as if that validator had found nothing.
C7_MalformedIsNoFindings ==
    (\/ lintOut # NotRun /\ ~WellFormedLint(lintOut)
     \/ TrivyRead /\ ~WellFormedTrivy(trivyOut))
    => exc \notin {"JSONDecodeError", "KeyError", "TypeError"}

\* C8: an audit that asked the backend and returned has no violation when
\* the answer is the sentinel, and otherwise exactly one, the semantic
\* check's, carrying the answer.
C8_OnlySentinelPasses ==
    (op = "audit_dockerfile" /\ apc = "returned" /\ llmCalls > 0)
    => violations = IF Strip(llmAnswer) = Sentinel THEN <<>>
                    ELSE <<SemanticViolation(Strip(llmAnswer))>>

\* The findings of a tool that the audit keeps, read off the tool's output:
\* hadolint's of level error or warning, every cfn-lint finding, every
\* misconfiguration of every trivy result, in the order printed.
KeptHadolint ==
    IF lintOut # NotRun /\ lintOut.kind = "json" /\ lintOut.val.t = "arr"
    THEN LET kept == SelectSeq(lintOut.val.a,
                         LAMBDA e : e.level \in {"error", "warning"})
         IN [i \in 1..Len(kept) |-> HadolintViolation(kept[i])]
    ELSE <<>>

KeptCfnLint ==
    IF lintOut # NotRun /\ lintOut.kind = "json" /\ lintOut.val.t = "arr"
    THEN [i \in 1..Len(lintOut.val.a) |-> CfnLintViolation(lintOut.val.a[i])]
    ELSE <<>>

RECURSIVE Misconfigurations(_)
Misconfigurations(results) ==
    IF results = <<>> THEN <<>>
    ELSE (IF "Misconfigurations" \in DOMAIN Head(results)
          THEN Head(results).Misconfigurations ELSE <<>>)
         \o Misconfigurations(Tail(results))

KeptTrivy(label) ==
    IF /\ TrivyRead /\ trivyOut.kind = "json" /\ trivyOut.val.t = "obj"
       /\ "Results" \in DOMAIN trivyOut.val.o
    THEN LET ms == Misconfigurations(trivyOut.val.o.Results)
         IN [i \in 1..Len(ms) |-> TrivyViolation(label, ms[i])]
    ELSE <<>>

KeptSemantic ==
    IF llmCalls > 0 /\ ~Contains(Strip(llmAnswer), Sentinel)
    THEN <<SemanticViolation(Strip(llmAnswer))>> ELSE <<>>

\* C9: the backend is asked at most once in an audit, only by
\* audit_dockerfile, and only when hadolint and trivy contributed no
\* violation to that audit.
C9_SemanticOnlyAfterCleanTools ==
    /\ llmCalls <= 1
    /\ llmCalls > 0 =>
         /\ op = "audit_dockerfile"
         /\ KeptHadolint = <<>> /\ KeptTrivy("[Trivy] ") = <<>>

C9_Witness ==
    /\ op = "audit_dockerfile" /\ apc = "returned" /\ llmCalls = 1
    /\ lintOut # NotRun /\ trivyOut # NotRun

\* C10: the list an audit returns is the linter's kept findings, then the
\* scanner's, then the semantic check's, each in the order printed; the
\* scanner has run whatever the linter found.
C10_ConcatenatedInOrder ==
    apc = "returned" =>
        /\ trivyInstalled => trivyOut # NotRun
        /\ violations =
             IF op = "audit_dockerfile"
             THEN KeptHadolint \o KeptTrivy("[Trivy] ") \o KeptSemantic
             ELSE KeptCfnLint \o KeptTrivy("[Trivy IaC] ")

C10_Witness ==
    /\ op = "audit_dockerfile" /\ apc = "returned"
    /\ Len(KeptHadolint) = 2 /\ KeptHadolint[1] # KeptHadolint[2]
    /\ Len(KeptTrivy("[Trivy] ")) = 2
    /\ KeptTrivy("[Trivy] ")[1] # KeptTrivy("[Trivy] ")[2]
    /\ Len(violations) = 4

\* ------------------------------------------- normalization, twice over

RECURSIVE Flatten(_)
Flatten(pieces) ==
    IF pieces = <<>> THEN <<>> ELSE Head(pieces) \o Flatten(Tail(pieces))

\* the language tag of a fence literal
LanguageTag(fence) == SubSeq(fence, Len(Fence) + 1, Len(fence))

\* Texts the backend may return: backquotes, the language tag, blanks and
\* other characters in any order.
BackendTexts(fence) ==
    { Flatten(pieces) :
        pieces \in SeqsUpTo({<<BQ>>, LanguageTag(fence), <<" ">>, <<"a">>}, MaxPieces) }

FenceOf(kind) ==
    IF kind = "generate_dockerfile" THEN DockerfileFence ELSE YamlFence

Normalize(kind, text) ==
    IF kind = "generate_dockerfile" THEN NormalizeDockerfile(text)
    ELSE NormalizeSam(text)

NormInit ==
    /\ ServerIdle /\ AuditIdle /\ PromptIdle
    /\ nKind \in {"generate_dockerfile", "generate_sam_template"}
    /\ nStage = "raw"
    /\ nRaw \in BackendTexts(FenceOf(nKind))
    /\ nOnce = <<>> /\ nTwice = <<>>

\* the return statement of generate_dockerfile / generate_sam_template
NormalizeOnce ==
    /\ nStage = "raw"
    /\ nOnce' = Normalize(nKind, nRaw)
    /\ nStage' = "once"
    /\ UNCHANGED <<nKind, nRaw, nTwice>>
    /\ UNCHANGED <<serverVars, auditVars, promptVars>>

\* the same expression applied to the text it returned
NormalizeAgain ==
    /\ nStage = "once"
    /\ nTwice' = Normalize(nKind, nOnce)
    /\ nStage' = "twice"
    /\ UNCHANGED <<nKind, nRaw, nOnce>>
    /\ UNCHANGED <<serverVars, auditVars, promptVars>>

NormNext ==
    \/ NormalizeOnce
    \/ NormalizeAgain

NormSpec == NormInit /\ [][NormNext]_vars

\* C11: normalizing a backend text and then normalizing the result again
\* gives the same text as normalizing once, and the normalized text holds
\* no fence marker.
C11_NormalizationIdempotent ==
    /\ nStage \in {"once", "twice"} => ~Contains(nOnce, Fence)
    /\ nStage = "twice" => nTwice = nOnce

C11_Witness ==
    /\ nStage = "twice"
    /\ Contains(nRaw, FenceOf(nKind))
    /\ nOnce # <<>> /\ Len(nOnce) < Len(nRaw) - Len(FenceOf(nKind))

\* ------------------------------------- one call of generate_dockerfile

\* What analyze_context returns, and a dict without its keys.
Contexts ==
    {EmptyObj}
    \cup [stack_summary : StackSummaries, security_context : SecurityContexts]

\* error_msg: none, or the text of earlier violations
Feedbacks == {<<>>, <<"D", "L", "3", "0", "0", "6">>}

PromptInit ==
    /\ ServerIdle /\ AuditIdle /\ NormIdle
    /\ gpc = "called"
    /\ gArgs \in [context : Contexts, attempt : 0..MaxAttempt,
                  error_msg : Feedbacks, target_service : Targets]
    /\ gPrompt = <<>> /\ gResult = <<>>

\* generate_dockerfile(context, attempt, error_msg, target_service)
GenerateDockerfile ==
    /\ gpc = "called"
    /\ gPrompt' = DockerfilePrompt(gArgs.context, gArgs.attempt, gArgs.error_msg,
                                   gArgs.target_service)
    /\ \/ \E text \in BackendDockerfiles :
             gResult' = NormalizeDockerfile(text) /\ gpc' = "returned"
       \/ gResult' = gResult /\ gpc' = "raised"
    /\ UNCHANGED gArgs
    /\ UNCHANGED <<serverVars, auditVars, normVars>>

PromptNext == GenerateDockerfile

PromptSpec == PromptInit /\ [][PromptNext]_vars

\* The prompt carries the Lambda instruction: its lines, in order, among the
\* sections that follow the feedback.
HasShimInstruction(prompt) ==
    \E i \in 7..Len(prompt) :
        /\ i + Len(ShimInstruction) - 1 <= Len(prompt)
        /\ \A k \in 1..Len(ShimInstruction) : prompt[i + k - 1] = ShimInstruction[k]

\* C12: the prompt of a generate_dockerfile call carries the Lambda adapter
\* instruction (copy the adapter, port 8080) exactly when target_service is
\* "lambda", whatever the attempt, the context and the feedback.
C12_ShimIffLambda ==
    gpc \in {"returned", "raised"} =>
        (HasShimInstruction(gPrompt) <=> gArgs.target_service = "lambda")

C12_Witness ==
    /\ gpc = "returned"
    /\ gArgs.target_service = "lambda"
    /\ gArgs.attempt > 0 /\ gArgs.error_msg # <<>>
    /\ HasShimInstruction(gPrompt)


\* The last plan_deployment returned its plan, and the Dockerfile under
\* WORK_DIR is the one it generated.
PlanStands == lastPlan = "plan" /\ dockerfile.by = "plan_deployment"

\* the build and deploy methods of ExecutionEngine
BuildOps == {"deploy_to_local", "build_and_push_lambda", "deploy_to_lambda"}

\* the last tool call was apply_deployment
ApplyEnded ==
    /\ pc = "idle"
    /\ outcome \in {"error: no plan", "error: no credentials", "deployed",
                    "raised: deploy"}

\* C13: apply_deployment invokes a build or deploy method of the executor
\* only when the last plan_deployment returned its plan and its Dockerfile
\* is the one under WORK_DIR; in every other case it returns the "no
\* deployment plan" error and invokes nothing.  (Stated for a WORK_DIR that
\* holds no Dockerfile of an earlier run of the server.)
C13_ApplyOnlyAfterPlan ==
    dockerfile.by # "earlier run" =>
        /\ (\E i \in 1..Len(execOps) : execOps[i] \in BuildOps) => PlanStands
        /\ (ApplyEnded /\ ~PlanStands) =>
               (outcome = "error: no plan" /\ execOps = <<>>)

====
